---- MODULE Spec2Model ----
(***************************************************************************)
(* Model of monitor.py: the Telegram keyword monitor.                      *)
(*                                                                         *)
(* The program is a cooperative event loop.  start_client runs one         *)
(* setup_monitoring and then every NewMessage update is dispatched to its  *)
(* own handle_new_message task.  A task runs without interruption until it *)
(* awaits the network: client.get_entity (in setup_monitoring and in       *)
(* forward_message_to_group) and client.forward_messages.  load_config and *)
(* update_statistics contain no await, so they run inside one step.        *)
(* Message events are delivered once the set-up of start_client is over.   *)
(*                                                                         *)
(* Strings are sequences of one-character strings.  A JSON object is a     *)
(* record, and a key that is absent from the object is absent from the     *)
(* record's DOMAIN.  Time is in seconds.                                   *)
(***************************************************************************)
EXTENDS Integers, Sequences, FiniteSets, TLC

VARIABLES
    now,                 \* time.time()
    last_config_check,   \* global, line 36
    current_config,      \* global, line 37
    monitored_entities,  \* global, line 38
    last_forward_times,  \* global, line 39: chat_id -> time of its last forward
    file,                \* users.json
    pc,                  \* where each task is suspended
    loc,                 \* the local variables of each task
    halted,              \* asyncio.run(start_client()) has returned
    log,                 \* history: one record per message event, in arrival order
    fwdSeq,              \* history: events in the order client.forward_messages was invoked
    loads,               \* history: one record per load_config call
    faults,              \* environment: failures injected so far
    stats0               \* history: the counters in users.json once start-up has loaded

vars == <<now, last_config_check, current_config, monitored_entities,
          last_forward_times, file, pc, loc, halted, log, fwdSeq, loads, faults,
          stats0>>

----------------------------------------------------------------------------
(* Bounds of the model *)

MaxHandlers == 2     \* handle_new_message tasks that may be in flight together
MaxEvents == 2       \* message events delivered in one run
MaxTicks == 2        \* advances of the clock in one run
MaxFaults == 1       \* failures of the disk or of the platform in one run
StartTime == 100     \* time.time() when the process starts

(* Program constants *)

REFRESH_INTERVAL == 30    \* line 254
SECONDS_PER_MINUTE == 60  \* line 159
DEFAULT_COOLDOWN == 2     \* line 272

TickLen == REFRESH_INTERVAL   \* the clock advances one staleness interval at a time

Startup == 0
Handlers == 1..MaxHandlers
Tasks == {Startup} \cup Handlers

----------------------------------------------------------------------------
(* Strings *)

\* str.lower() on the characters the model uses
Lower(c) ==
    CASE c = "U" -> "u"
      [] c = "R" -> "r"
      [] c = "X" -> "x"
      [] OTHER -> c

LowerStr(s) == [i \in 1..Len(s) |-> Lower(s[i])]

\* Python's  k in t  on strings
IsSubstring(k, t) ==
    \E i \in 0..(Len(t) - Len(k)) : SubSeq(t, i + 1, i + Len(k)) = k

\* dict.get(key, default)
Get(d, key, default) == IF key \in DOMAIN d THEN d[key] ELSE default

EmptyDict == [k \in {} |-> 0]

----------------------------------------------------------------------------
(* Names, entities, texts *)

NameNews == <<"@", "n">>     \* a channel
NameChat == <<"g">>          \* a group, written without the handle marker
NameOps == <<"@", "o">>      \* the destination
NameGone == <<"@", "z">>     \* a name the platform does not know
NameNewsBare == <<"n">>      \* the channel again, without the handle marker

\* what client.get_entity knows: stripped name -> entity id
Directory == [n \in {<<"n">>, <<"g">>, <<"o">>} |->
                 CASE n = <<"n">> -> 1 [] n = <<"g">> -> 2 [] n = <<"o">> -> 3]

None == 0     \* no entity; ids are positive

ChatIds == {1, 2}

KwUrgent == <<"u", "r">>
KwImportant == <<"i", "m">>

TextUrgent == <<"x", "U", "R">>    \* contains the keyword in upper case
TextPlain == <<"x", "y">>
Texts == {<<>>, TextUrgent, TextPlain}

----------------------------------------------------------------------------
(* Configuration records *)

Stats(mf, kt) == [messages_forwarded |-> mf, keywords_triggered |-> kt]

Entry(tag, data) == [tag |-> tag, data |-> data]

CfgScenario ==
    [monitoring_active |-> TRUE,
     keywords |-> <<KwUrgent>>,
     cooldown |-> 2,
     destination_group |-> NameOps,
     channels |-> <<Entry("c1", [name |-> NameNews])>>,
     groups |-> <<>>,
     statistics |-> Stats(0, 0)]

CfgInactive == [CfgScenario EXCEPT !.monitoring_active = FALSE]

\* a channel entry without a name
CfgNoName ==
    [CfgScenario EXCEPT !.channels = <<Entry("c1", [title |-> NameNews])>>]

\* no keywords, no statistics; a shorter cooldown; two channels, one of them
\* unknown to the platform, and two groups, one of them the first channel
CfgQuick ==
    [monitoring_active |-> TRUE,
     cooldown |-> 1,
     destination_group |-> NameOps,
     channels |-> <<Entry("c1", [name |-> NameNews]),
                    Entry("c2", [name |-> NameGone])>>,
     groups |-> <<Entry("g1", [name |-> NameChat]),
                  Entry("g2", [name |-> NameNewsBare])>>]

\* the scenario without a destination_group
CfgNoDest ==
    [k \in DOMAIN CfgScenario \ {"destination_group"} |-> CfgScenario[k]]

RemoteConfigs == {CfgScenario, CfgInactive, CfgNoName, CfgQuick, CfgNoDest}

\* what the GitHub contents API may answer; an exception, and GITHUB_TOKEN or
\* GITHUB_REPO not being set, give the same {} as a status other than 200
Responses ==
    {[status |-> 500, body |-> EmptyDict]}
    \cup {[status |-> 200, body |-> c] : c \in RemoteConfigs}

----------------------------------------------------------------------------
(* users.json *)

FileOf(c) == [state |-> "ok", data |-> c]
FileMissing == [state |-> "missing", data |-> EmptyDict]
FileMalformed == [state |-> "malformed", data |-> EmptyDict]

\* how a write of users.json may end: written; open() failed and the file is
\* as it was; open() truncated the file and json.dump failed part-way
DiskOutcomes == {"ok", "eopen", "edump"}

WriteFile(f, content, o) ==
    CASE o = "ok" -> FileOf(content)
      [] o = "eopen" -> f
      [] OTHER -> FileMalformed

\* the counters update_statistics would read from users.json
HasStats(f) == f.state = "ok" /\ "statistics" \in DOMAIN f.data
StatsOf(f) == IF HasStats(f) THEN f.data.statistics ELSE Stats(0, 0)

----------------------------------------------------------------------------
(* Configuration loading, lines 55-141 *)

KwAlert == <<"a", "l">>

\* dict[key] = value
SetKey(d, key, v) == [k \in DOMAIN d \cup {key} |-> IF k = key THEN v ELSE d[k]]

\* lines 57-69; last_reset is a time stamp nothing reads and is left out
default_config ==
    [monitoring_active |-> FALSE,
     keywords |-> <<KwUrgent, KwImportant, KwAlert>>,
     cooldown |-> 2,
     destination_group |-> <<>>,
     channels |-> <<>>,
     groups |-> <<>>,
     statistics |-> Stats(0, 0)]

\* lines 55-78: the default is returned whether or not it could be written
create_default_config(f, o) ==
    [config |-> default_config, file |-> WriteFile(f, default_config, o)]

\* lines 80-103: {} unless the API answered 200
get_config_from_github(resp) ==
    IF resp.status = 200 THEN resp.body ELSE EmptyDict

\* lines 105-116
get_config_from_file(f, o) ==
    IF f.state = "ok"
    THEN [config |-> f.data, file |-> f]
    ELSE create_default_config(f, o)

\* lines 118-141: the record returned and what users.json holds afterwards
load_config(resp, f, o) ==
    LET gh == get_config_from_github(resp)
        got == IF gh # EmptyDict
               THEN [config |-> gh, file |-> WriteFile(f, gh, o)]
               ELSE get_config_from_file(f, o)
        c1 == IF "monitoring_active" \in DOMAIN got.config
              THEN got.config
              ELSE SetKey(got.config, "monitoring_active", FALSE)
        c2 == IF "keywords" \in DOMAIN c1
              THEN c1
              ELSE SetKey(c1, "keywords", <<KwUrgent, KwImportant>>)
    IN  [config |-> c2, file |-> got.file]

\* history: the load obtained a record from the remote source or from users.json
LoadSucceeded(resp, f) ==
    get_config_from_github(resp) # EmptyDict \/ f.state = "ok"

----------------------------------------------------------------------------
(* The filter, the cooldown, the resolver and the statistics, lines 143-205 *)

\* should_forward_message comparing the keywords and the text as they are written
should_forward_message_same_case(text, keywords) ==
    IF text = <<>> \/ keywords = <<>>
    THEN FALSE
    ELSE \E i \in 1..Len(keywords) : IsSubstring(keywords[i], text)

\* lines 143-151
should_forward_message(text, keywords) ==
    IF text = <<>> \/ keywords = <<>>
    THEN FALSE
    ELSE \E i \in 1..Len(keywords) :
             IsSubstring(LowerStr(keywords[i]), LowerStr(text))

\* check_cooldown with the minutes of the cooldown compared to seconds
check_cooldown_in_seconds(chat_id, cooldown_minutes, lft, t) ==
    IF chat_id \notin DOMAIN lft
    THEN TRUE
    ELSE (t - lft[chat_id]) >= cooldown_minutes

\* check_cooldown still refusing at the moment the cooldown ends
check_cooldown_strict(chat_id, cooldown_minutes, lft, t) ==
    IF chat_id \notin DOMAIN lft
    THEN TRUE
    ELSE (t - lft[chat_id]) > cooldown_minutes * SECONDS_PER_MINUTE

\* lines 153-161, with last_forward_times and time.time() as arguments;
\* (t - last) / 60 >= c  is  t - last >= 60 * c
check_cooldown(chat_id, cooldown_minutes, lft, t) ==
    IF chat_id \notin DOMAIN lft
    THEN TRUE
    ELSE (t - lft[chat_id]) >= cooldown_minutes * SECONDS_PER_MINUTE

\* lines 165-166
StripHandle(name) ==
    IF name # <<>> /\ Head(name) = "@" THEN Tail(name) ELSE name

\* lines 163-171: answered tells whether client.get_entity returned or raised
get_entity_by_name(name, answered) ==
    LET n == StripHandle(name)
    IN  IF answered /\ n \in DOMAIN Directory THEN Directory[n] ELSE None

\* lines 187-205: users.json after the call; o is how the writes of this call
\* end (the default configuration when the file cannot be read, then the record)
update_statistics(f, forwarded, keyword_triggered, o) ==
    LET got == get_config_from_file(f, o)
        config == IF "statistics" \in DOMAIN got.config
                  THEN got.config
                  ELSE SetKey(got.config, "statistics", Stats(0, 0))
        s == config.statistics
        s2 == Stats(s.messages_forwarded + (IF forwarded THEN 1 ELSE 0),
                    s.keywords_triggered + (IF keyword_triggered THEN 1 ELSE 0))
    IN  WriteFile(got.file, [config EXCEPT !.statistics = s2], o)

----------------------------------------------------------------------------
(* The state as one record, so that the steps of a task compose *)

State ==
    [now |-> now, last_config_check |-> last_config_check,
     current_config |-> current_config, monitored_entities |-> monitored_entities,
     last_forward_times |-> last_forward_times, file |-> file, pc |-> pc,
     loc |-> loc, halted |-> halted, log |-> log, fwdSeq |-> fwdSeq,
     loads |-> loads, faults |-> faults, stats0 |-> stats0]

Commit(g) ==
    /\ now' = g.now
    /\ last_config_check' = g.last_config_check
    /\ current_config' = g.current_config
    /\ monitored_entities' = g.monitored_entities
    /\ last_forward_times' = g.last_forward_times
    /\ file' = g.file
    /\ pc' = g.pc
    /\ loc' = g.loc
    /\ halted' = g.halted
    /\ log' = g.log
    /\ fwdSeq' = g.fwdSeq
    /\ loads' = g.loads
    /\ faults' = g.faults
    /\ stats0' = g.stats0

\* the locals of a task that is not running
IdleLoc ==
    [ev |-> 0, current_time |-> 0, chat_id |-> 0, text |-> <<>>,
     config |-> EmptyDict, new_entities |-> {}, idx |-> 0, destination |-> <<>>]

\* history record of an event that has just arrived: its source, its text,
\* its current_time, the cooldown its handler read (none yet) and how it ended
NewLog(chat, text, t) ==
    [chat |-> chat, text |-> text, t |-> t, cooldown |-> -1,
     outcome |-> "refreshing"]

\* handle_new_message returns (or raises): the task is gone
EndHandler(g, h, outcome) ==
    [g EXCEPT !.log[g.loc[h].ev].outcome = outcome,
              !.pc[h] = "idle",
              !.loc[h] = IdleLoc]

----------------------------------------------------------------------------
(* setup_monitoring, lines 207-247 *)

\* channels.items() followed by groups.items()
Entries(config) == Get(config, "channels", <<>>) \o Get(config, "groups", <<>>)

\* lines 225-242 from entry loc[p].idx on: up to the next await of
\* get_entity_by_name, the KeyError of an entry without a name, or the end
resolve_next(g, p) ==
    LET l == g.loc[p]
        entries == Entries(l.config)
    IN  IF l.idx > Len(entries)
        THEN [g EXCEPT !.monitored_entities = l.new_entities, !.pc[p] = "returned"]
        ELSE IF "name" \notin DOMAIN entries[l.idx].data
        THEN [g EXCEPT !.pc[p] = "raised"]
        ELSE [g EXCEPT !.pc[p] = "resolving"]

\* setup_monitoring without the return of lines 213-220
setup_monitoring_always_resolves(g, p, resp, o) ==
    LET ld == load_config(resp, g.file, o)
    IN  resolve_next([g EXCEPT
                         !.current_config = ld.config,
                         !.file = ld.file,
                         !.loads = Append(@, [t |-> g.now,
                                              ok |-> LoadSucceeded(resp, g.file)]),
                         !.loc[p].config = ld.config,
                         !.loc[p].new_entities = {},
                         !.loc[p].idx = 1], p)

\* lines 207-222
setup_monitoring(g, p, resp, o) ==
    LET ld == load_config(resp, g.file, o)
        g1 == [g EXCEPT
                  !.current_config = ld.config,
                  !.file = ld.file,
                  !.loads = Append(@, [t |-> g.now,
                                       ok |-> LoadSucceeded(resp, g.file)]),
                  !.loc[p].config = ld.config,
                  !.loc[p].new_entities = {},
                  !.loc[p].idx = 1]
    IN  IF ~ Get(ld.config, "monitoring_active", FALSE)
        THEN [g1 EXCEPT !.pc[p] = "returned"]
        ELSE resolve_next(g1, p)

\* entity_resolved giving up the loop at the first name that does not resolve
entity_resolved_aborts(g, p, answered) ==
    LET l == g.loc[p]
        entity == get_entity_by_name(Entries(l.config)[l.idx].data.name, answered)
    IN  IF entity = None
        THEN resolve_next([g EXCEPT !.loc[p].idx = Len(Entries(l.config)) + 1], p)
        ELSE resolve_next([g EXCEPT !.loc[p].new_entities = @ \cup {entity},
                                    !.loc[p].idx = @ + 1], p)

\* lines 226-231 and 235-240 after the await: the entity or None came back
entity_resolved(g, p, answered) ==
    LET l == g.loc[p]
        entity == get_entity_by_name(Entries(l.config)[l.idx].data.name, answered)
        g1 == [g EXCEPT
                  !.loc[p].new_entities = IF entity # None THEN @ \cup {entity} ELSE @,
                  !.loc[p].idx = @ + 1]
    IN  resolve_next(g1, p)

----------------------------------------------------------------------------
(* handle_new_message, lines 249-288 *)

\* after_refresh counting the trigger as soon as the text matches, before the
\* cooldown is looked at
after_refresh_counts_matches(g, h, ou) ==
    LET l == g.loc[h]
        cfg == g.current_config
        keywords == Get(cfg, "keywords", <<>>)
        cooldown == Get(cfg, "cooldown", DEFAULT_COOLDOWN)
        destination == Get(cfg, "destination_group", <<>>)
        g1 == [g EXCEPT !.log[l.ev].cooldown = cooldown,
                        !.file = update_statistics(g.file, FALSE, TRUE, ou)]
    IN  IF ~ Get(cfg, "monitoring_active", FALSE) THEN EndHandler(g, h, "inactive")
        ELSE IF l.chat_id \notin g.monitored_entities THEN EndHandler(g, h, "unmonitored")
        ELSE IF l.text = <<>> THEN EndHandler(g, h, "empty")
        ELSE IF ~ should_forward_message(l.text, keywords) THEN EndHandler(g, h, "nomatch")
        ELSE IF ~ check_cooldown(l.chat_id, cooldown, g.last_forward_times, g.now)
             THEN EndHandler(g1, h, "cooldown")
        ELSE IF destination = <<>> THEN EndHandler(g1, h, "nodest")
        ELSE [g1 EXCEPT
                 !.log[l.ev].outcome = "dispatching",
                 !.loc[h].destination = destination,
                 !.pc[h] = "dest"]

\* lines 258-284, up to the await in forward_message_to_group
after_refresh(g, h, ou) ==
    LET l == g.loc[h]
        cfg == g.current_config
        keywords == Get(cfg, "keywords", <<>>)
        cooldown == Get(cfg, "cooldown", DEFAULT_COOLDOWN)
        destination == Get(cfg, "destination_group", <<>>)
        g1 == [g EXCEPT !.log[l.ev].cooldown = cooldown]
    IN  IF ~ Get(cfg, "monitoring_active", FALSE) THEN EndHandler(g, h, "inactive")
        ELSE IF l.chat_id \notin g.monitored_entities THEN EndHandler(g, h, "unmonitored")
        ELSE IF l.text = <<>> THEN EndHandler(g, h, "empty")
        ELSE IF ~ should_forward_message(l.text, keywords) THEN EndHandler(g, h, "nomatch")
        ELSE IF ~ check_cooldown(l.chat_id, cooldown, g.last_forward_times, g.now)
             THEN EndHandler(g1, h, "cooldown")
        ELSE IF destination = <<>> THEN EndHandler(g1, h, "nodest")
        ELSE [g1 EXCEPT
                 !.file = update_statistics(g1.file, FALSE, TRUE, ou),
                 !.log[l.ev].outcome = "dispatching",
                 !.loc[h].destination = destination,
                 !.pc[h] = "dest"]

\* line 256 and what follows, once setup_monitoring has returned or raised
after_setup(g, h, ou) ==
    CASE g.pc[h] = "resolving" -> g
      [] g.pc[h] = "raised" -> EndHandler(g, h, "raised")
      [] OTHER ->
            after_refresh([g EXCEPT !.last_config_check = g.loc[h].current_time],
                          h, ou)

\* lines 250-256: the event is dispatched to a new task
handle_new_message(g, h, chat, text, resp, o, ou) ==
    LET ev == Len(g.log) + 1
        g1 == [g EXCEPT
                  !.log = Append(@, NewLog(chat, text, g.now)),
                  !.loc[h] = [IdleLoc EXCEPT !.ev = ev, !.current_time = g.now,
                                             !.chat_id = chat, !.text = text]]
    IN  IF g.now - g.last_config_check > REFRESH_INTERVAL
        THEN after_setup(setup_monitoring(g1, h, resp, o), h, ou)
        ELSE after_refresh(g1, h, ou)

\* lines 175-180: the destination entity or None came back
forward_message_to_group(g, h, answered) ==
    LET l == g.loc[h]
        dest_entity == get_entity_by_name(l.destination, answered)
    IN  IF dest_entity = None
        THEN EndHandler(g, h, "destfail")
        ELSE [g EXCEPT !.fwdSeq = Append(@, l.ev), !.pc[h] = "sending"]

\* forward_returned invoking client.forward_messages again after an error
forward_returned_retries(g, h, sent, ou) ==
    LET l == g.loc[h]
    IN  IF ~ sent
        THEN [g EXCEPT !.fwdSeq = Append(@, l.ev)]
        ELSE EndHandler(
                 [g EXCEPT
                     !.last_forward_times = SetKey(@, l.chat_id, l.current_time),
                     !.file = update_statistics(g.file, TRUE, FALSE, ou)],
                 h, "forwarded")

\* forward_returned recording the time of the forward whether or not it succeeded
forward_returned_records_attempt(g, h, sent, ou) ==
    LET l == g.loc[h]
        g1 == [g EXCEPT !.last_forward_times = SetKey(@, l.chat_id, l.current_time)]
    IN  IF ~ sent
        THEN EndHandler(g1, h, "sendfail")
        ELSE EndHandler(
                 [g1 EXCEPT !.file = update_statistics(g.file, TRUE, FALSE, ou)],
                 h, "forwarded")

\* lines 180-185 and 285-288: client.forward_messages returned or raised
forward_returned(g, h, sent, ou) ==
    LET l == g.loc[h]
    IN  IF ~ sent
        THEN EndHandler(g, h, "sendfail")
        ELSE EndHandler(
                 [g EXCEPT
                     !.last_forward_times = SetKey(@, l.chat_id, l.current_time),
                     !.file = update_statistics(g.file, TRUE, FALSE, ou)],
                 h, "forwarded")

\* lines 322-333: setup_monitoring at start-up; an exception ends the program
start_client(g) ==
    CASE g.pc[Startup] = "resolving" -> g
      [] g.pc[Startup] = "raised" ->
            [g EXCEPT !.pc[Startup] = "exited", !.loc[Startup] = IdleLoc,
                      !.halted = TRUE]
      [] OTHER -> [g EXCEPT !.pc[Startup] = "running", !.loc[Startup] = IdleLoc]

----------------------------------------------------------------------------
(* The actions *)

InitFiles ==
    {FileMissing}
    \cup {FileOf([CfgScenario EXCEPT !.statistics = s]) : s \in {Stats(0, 0), Stats(1, 2)}}

Init ==
    /\ now = StartTime
    /\ last_config_check = 0
    /\ current_config = EmptyDict
    /\ monitored_entities = {}
    /\ last_forward_times = EmptyDict
    /\ file \in InitFiles
    /\ pc = [p \in Tasks |-> IF p = Startup THEN "init" ELSE "idle"]
    /\ loc = [p \in Tasks |-> IdleLoc]
    /\ halted = FALSE
    /\ log = <<>>
    /\ fwdSeq = <<>>
    /\ loads = <<>>
    /\ faults = 0
    /\ stats0 = Stats(0, 0)

\* time passes
Tick ==
    /\ ~ halted
    /\ now < StartTime + MaxTicks * TickLen
    /\ now' = now + TickLen
    /\ UNCHANGED <<last_config_check, current_config, monitored_entities,
                   last_forward_times, file, pc, loc, halted, log, fwdSeq, loads,
                   faults, stats0>>

\* What the environment does to one step of a task: nothing, or one failure.
\* "eopen" and "edump" make every write of users.json in the step fail that
\* way; "net" makes the platform call the task was waiting for raise.
Faults == IF faults < MaxFaults THEN {"none", "eopen", "edump", "net"} ELSE {"none"}
DiskFaults == Faults \ {"net"}
NetFaults == Faults \ {"eopen", "edump"}

Disk(fault) == IF fault \in {"eopen", "edump"} THEN fault ELSE "ok"
Answered(fault) == fault # "net"

\* the state at the start of a step taken under a fault
Step(fault) ==
    [State EXCEPT !.faults = IF fault = "none" THEN @ ELSE @ + 1]

\* a failure is injected only where the step meets it: where it changes
\* what the step does
Felt(with, without) ==
    [with EXCEPT !.faults = 0] # [without EXCEPT !.faults = 0]

\* start_client reaches line 322
StartClient ==
    /\ ~ halted
    /\ pc[Startup] = "init"
    /\ \E resp \in Responses, fault \in DiskFaults :
           LET run(f) ==
                   LET g == setup_monitoring(Step(f), Startup, resp, Disk(f))
                   IN  start_client([g EXCEPT !.stats0 = StatsOf(g.file)])
           IN  /\ fault = "none" \/ Felt(run(fault), run("none"))
               /\ Commit(run(fault))

\* a message event arrives once start_client waits in run_until_disconnected
\* (line 328); idle tasks are interchangeable, the first is taken
NewMessage ==
    /\ ~ halted
    /\ pc[Startup] = "running"
    /\ Len(log) < MaxEvents
    /\ \E h \in Handlers :
        /\ pc[h] = "idle"
        /\ \A q \in Handlers : q < h => pc[q] # "idle"
        /\ \E chat \in ChatIds, text \in Texts, resp \in Responses,
              fault \in DiskFaults :
               LET run(f) == handle_new_message(Step(f), h, chat, text, resp,
                                                Disk(f), Disk(f))
               IN  /\ fault = "none" \/ Felt(run(fault), run("none"))
                   /\ Commit(run(fault))

\* client.get_entity returns or raises inside setup_monitoring
EntityResolved ==
    /\ ~ halted
    /\ \E p \in Tasks :
        /\ pc[p] = "resolving"
        /\ \E fault \in Faults :
               LET run(f) ==
                       LET g == entity_resolved(Step(f), p, Answered(f))
                       IN  IF p = Startup THEN start_client(g)
                                          ELSE after_setup(g, p, Disk(f))
               IN  /\ fault = "none" \/ Felt(run(fault), run("none"))
                   /\ Commit(run(fault))

\* client.get_entity returns or raises inside forward_message_to_group
DestResolved ==
    /\ ~ halted
    /\ \E h \in Handlers :
        /\ pc[h] = "dest"
        /\ \E fault \in NetFaults :
               Commit(forward_message_to_group(Step(fault), h, Answered(fault)))

\* client.forward_messages returns or raises
ForwardReturned ==
    /\ ~ halted
    /\ \E h \in Handlers :
        /\ pc[h] = "sending"
        /\ \E fault \in Faults :
               LET run(f) == forward_returned(Step(f), h, Answered(f), Disk(f))
               IN  /\ fault = "none" \/ Felt(run(fault), run("none"))
                   /\ Commit(run(fault))

Next ==
    \/ Tick
    \/ StartClient
    \/ NewMessage
    \/ EntityResolved
    \/ DestResolved
    \/ ForwardReturned

Spec == Init /\ [][Next]_vars

----------------------------------------------------------------------------
(* Vocabulary of the claims *)

Active(cfg) == Get(cfg, "monitoring_active", FALSE)

\* no handle_new_message task is in flight
Idle == \A h \in Handlers : pc[h] = "idle"

Events == 1..Len(log)

\* events that passed the monitoring gate, the source check and the filter
MatchedOutcomes ==
    {"cooldown", "nodest", "dispatching", "destfail", "sendfail", "forwarded"}

Matched == {i \in Events : log[i].outcome \in MatchedOutcomes}
Forwarded == {i \in Events : log[i].outcome = "forwarded"}

\* event ev goes through lines 258-282 in this step
GateStep(ev) ==
    /\ ev \in 1..Len(log')
    /\ log'[ev].outcome \notin {"refreshing", "raised"}
    /\ ev \in 1..Len(log) => log[ev].outcome = "refreshing"

\* event ev passes line 282 in this step
TriggerStep(ev) ==
    /\ GateStep(ev)
    /\ log'[ev].outcome = "dispatching"

\* event ev passes line 287 in this step
ForwardedStep(ev) ==
    /\ ev \in 1..Len(log)
    /\ log[ev].outcome = "dispatching"
    /\ log'[ev].outcome = "forwarded"

\* a task calls client.get_entity in this step: it ends the step awaiting it
GetEntityCalled ==
    \E p \in Tasks :
        /\ pc'[p] \in {"resolving", "dest"}
        /\ pc'[p] # pc[p] \/ loc'[p] # loc[p]

\* load_config is called in this step
LoadStep == Len(loads') > Len(loads)

\* the configuration of the end-to-end scenario of the specification
ScenarioConfig(cfg) ==
    /\ Active(cfg)
    /\ Get(cfg, "keywords", <<>>) = <<KwUrgent>>
    /\ Get(cfg, "cooldown", DEFAULT_COOLDOWN) = 2
    /\ Get(cfg, "destination_group", <<>>) = NameOps

----------------------------------------------------------------------------
(* C1 *)

\* C1: two events of one source that are both forwarded under the same
\* cooldown of c minutes were handled at least c minutes apart
C1_CooldownUnderInterleaving ==
    \A i \in Forwarded, j \in Forwarded :
        (i < j /\ log[i].chat = log[j].chat /\ log[i].cooldown = log[j].cooldown)
        => log[j].t - log[i].t >= log[i].cooldown * SECONDS_PER_MINUTE

----------------------------------------------------------------------------
(* C2 *)

\* C2: the persisted record never has more forwarded messages than triggers
C2_ForwardedAtMostTriggered ==
    HasStats(file) =>
        StatsOf(file).messages_forwarded <= StatsOf(file).keywords_triggered

----------------------------------------------------------------------------
(* C3 *)

\* C3: once every handler has returned, keywords_triggered has grown by the
\* number of events of monitored sources whose text matched, and
\* messages_forwarded by the number of successful forwards
C3_StatisticsExact ==
    (Idle /\ pc[Startup] = "running") =>
        /\ StatsOf(file).keywords_triggered
               = stats0.keywords_triggered + Cardinality(Matched)
        /\ StatsOf(file).messages_forwarded
               = stats0.messages_forwarded + Cardinality(Forwarded)

----------------------------------------------------------------------------
(* C4 *)

\* the second event of the scenario reaches the gate in this step: scenario
\* configuration, its source the one monitored source, matching text, arrived
\* 30 seconds after the event last forwarded from that source, and checked
\* for cooldown less than two minutes after it
SecondEventStep(ev) ==
    /\ GateStep(ev)
    /\ ScenarioConfig(current_config')
    /\ monitored_entities' = {log'[ev].chat}
    /\ should_forward_message(log'[ev].text, <<KwUrgent>>)
    /\ log'[ev].chat \in DOMAIN last_forward_times
    /\ log'[ev].t - last_forward_times[log'[ev].chat] = 30
    /\ now - last_forward_times[log'[ev].chat] < 2 * SECONDS_PER_MINUTE

\* the first event of the scenario: with the writes of users.json succeeding,
\* its trigger adds one to keywords_triggered and its forward adds one to
\* messages_forwarded
FirstEventCounts(ev) ==
    /\ (TriggerStep(ev) /\ ScenarioConfig(current_config') /\ faults' = faults)
        => StatsOf(file') = Stats(StatsOf(file).messages_forwarded,
                                  StatsOf(file).keywords_triggered + 1)
    /\ (ForwardedStep(ev) /\ faults' = faults)
        => /\ StatsOf(file') = Stats(StatsOf(file).messages_forwarded + 1,
                                     StatsOf(file).keywords_triggered)
           /\ last_forward_times' =
                  SetKey(last_forward_times, log[ev].chat, log[ev].t)

----------------------------------------------------------------------------
(* C5 *)

\* C5: two load_config calls are more than one staleness interval apart
C5_OneLoadPerInterval ==
    \A i \in 1..Len(loads), j \in 1..Len(loads) :
        i < j => loads[j].t - loads[i].t > REFRESH_INTERVAL

----------------------------------------------------------------------------
(* C6 *)

----------------------------------------------------------------------------
(* C7 *)

\* C7: a refresh whose load obtains no record, neither from the remote source
\* nor from users.json, leaves the cached configuration as it was
C7_FailedLoadKeepsConfig ==
    [][(LoadStep /\ Len(loads) >= 1 /\ ~ loads'[Len(loads')].ok)
          => current_config' = current_config]_vars

----------------------------------------------------------------------------
(* C8 *)

\* C8: no handle_new_message invocation ends by raising
C8_NoHandlerRaises == \A i \in Events : log[i].outcome # "raised"

----------------------------------------------------------------------------
(* C9 *)

\* C9: of two forwarded events of one source, client.forward_messages is
\* invoked first for the one that arrived first
C9_PerSourceOrder ==
    \A i \in 1..Len(fwdSeq), j \in 1..Len(fwdSeq) :
        (/\ i < j
         /\ log[fwdSeq[i]].chat = log[fwdSeq[j]].chat
         /\ log[fwdSeq[i]].outcome = "forwarded"
         /\ log[fwdSeq[j]].outcome = "forwarded")
        => fwdSeq[i] < fwdSeq[j]

----------------------------------------------------------------------------
(* C10 *)

\* C10: once the program runs, no step lowers a persisted counter, unless it
\* loads a record whose statistics differ from those of the record loaded
\* before it (the store was reset between the two loads)
C10_CountersNeverDecrease ==
    [][(/\ pc[Startup] # "init"
        /\ HasStats(file) /\ HasStats(file')
        /\ Get(current_config', "statistics", Stats(0, 0))
               = Get(current_config, "statistics", Stats(0, 0))) =>
          /\ StatsOf(file').messages_forwarded >= StatsOf(file).messages_forwarded
          /\ StatsOf(file').keywords_triggered >= StatsOf(file).keywords_triggered]_vars

----------------------------------------------------------------------------
(* C11 *)

\* the set-up of task p, whose entries all have a name, ends in this step:
\* the last answer it waited for has come back
RefreshDone(p) ==
    /\ pc[p] = "resolving"
    /\ pc'[p] # "resolving"
    /\ \A i \in 1..Len(Entries(loc[p].config)) :
           "name" \in DOMAIN Entries(loc[p].config)[i].data

\* the entity ids of the names of a configuration that the platform knows
KnownIds(config) ==
    {Directory[StripHandle(Entries(config)[i].data.name)] :
        i \in {j \in 1..Len(Entries(config)) :
                  /\ "name" \in DOMAIN Entries(config)[j].data
                  /\ StripHandle(Entries(config)[j].data.name) \in DOMAIN Directory}}

\* C11: when a refresh of an active configuration completes, the monitored set
\* holds ids of names of that configuration only, each platform failure keeps
\* at most one of them out (none is missing when nothing failed), a name that
\* did not resolve is absent, and the refresh ends without an exception
C11_MonitoredSetIsResolvedSet ==
    [][\A p \in Tasks :
          RefreshDone(p) =>
             /\ Active(loc[p].config)
             /\ monitored_entities' \subseteq KnownIds(loc[p].config)
             /\ None \notin monitored_entities'
             /\ Cardinality(KnownIds(loc[p].config) \ monitored_entities') <= faults'
             /\ p = Startup => pc'[p] = "running"
             /\ p \in Handlers => log'[loc[p].ev].outcome # "raised"]_vars

\* a refresh of the configuration with four names, one unknown to the platform
\* and two of one entity, has completed without failures: two members
C11_Witness ==
    /\ Len(Entries(current_config)) = 4
    /\ \E i \in 1..Len(Entries(current_config)) :
           Entries(current_config)[i].data.name = NameGone
    /\ faults = 0
    /\ monitored_entities = {1, 2}
    /\ Len(loads) >= 2

----------------------------------------------------------------------------
(* The cooldown predicate and the keyword filter on their own: the inputs are
   drawn by the initial state and one call is made *)

MaxCooldown == 2     \* cooldown values 0..MaxCooldown, in minutes
MaxTextLen == 3      \* length of the texts given to the filter

\* times of the recorded forwards, and times of the check: the elapsed times
\* are 0, 59, 60, 61, 119, 120, 121, 179 and 180 seconds
RecordedTimes == {StartTime, StartTime + 60}
CheckTimes == {StartTime + e : e \in {60, 119, 120, 121, 179, 180}}

\* last_forward_times: each source without an entry or with a recorded time
CooldownMaps ==
    UNION {[S -> RecordedTimes] : S \in SUBSET ChatIds}

Alphabet == {"u", "U", "R", "x"}

\* the strings of at most n characters
RECURSIVE StringsUpTo(_)
StringsUpTo(n) ==
    IF n = 0 THEN {<<>>}
    ELSE StringsUpTo(n - 1)
         \cup {Append(s, c) : s \in {q \in StringsUpTo(n - 1) : Len(q) = n - 1},
                              c \in Alphabet}

FilterTexts == StringsUpTo(MaxTextLen)

\* keywords: the empty string, one in lower case, one in mixed case, one absent
\* from most texts
FilterKeywords == {<<>>, <<"u">>, <<"U", "r">>, <<"x", "x">>}

\* the keyword sequences: none, one keyword, two keywords
KeywordLists ==
    {<<>>}
    \cup {<<k>> : k \in FilterKeywords}
    \cup {<<k1, k2>> : k1 \in FilterKeywords, k2 \in FilterKeywords}

InitFunctions ==
    /\ now \in CheckTimes
    /\ last_config_check = now
    /\ current_config \in {[cooldown |-> c, keywords |-> ks] :
                              c \in 0..MaxCooldown, ks \in KeywordLists}
    /\ monitored_entities = ChatIds
    /\ last_forward_times \in CooldownMaps
    /\ file = FileMissing
    /\ pc = [p \in Tasks |-> IF p = Startup THEN "running" ELSE "idle"]
    /\ loc = [p \in Tasks |-> IdleLoc]
    /\ halted = FALSE
    /\ log = <<>>
    /\ fwdSeq = <<>>
    /\ loads = <<>>
    /\ faults = 0
    /\ stats0 = Stats(0, 0)

\* line 273: check_cooldown(event.chat_id, cooldown); the answer is logged
CallCheckCooldown ==
    /\ log = <<>>
    /\ \E chat \in ChatIds :
           log' = <<[chat |-> chat, text |-> <<>>, t |-> now,
                     cooldown |-> current_config.cooldown,
                     outcome |-> IF check_cooldown(chat, current_config.cooldown,
                                                   last_forward_times, now)
                                 THEN "allowed" ELSE "cooldown"]>>
    /\ UNCHANGED <<now, last_config_check, current_config, monitored_entities,
                   last_forward_times, file, pc, loc, halted, fwdSeq, loads,
                   faults, stats0>>

\* line 269: should_forward_message(message_text, keywords); the answer is logged
CallShouldForward ==
    /\ log = <<>>
    /\ \E text \in FilterTexts :
           log' = <<[chat |-> None, text |-> text, t |-> now, cooldown |-> -1,
                     outcome |-> IF should_forward_message(text,
                                                           current_config.keywords)
                                 THEN "match" ELSE "nomatch"]>>
    /\ UNCHANGED <<now, last_config_check, current_config, monitored_entities,
                   last_forward_times, file, pc, loc, halted, fwdSeq, loads,
                   faults, stats0>>

NextFunctions ==
    \/ CallCheckCooldown
    \/ CallShouldForward

SpecFunctions == InitFunctions /\ [][NextFunctions]_vars

----------------------------------------------------------------------------
(* C12 *)

\* C12: check_cooldown answers true for a source without a recorded forward;
\* for a source with one it answers false exactly when fewer than
\* 60 * cooldown_minutes seconds have passed since; with a cooldown of 0 it
\* answers true
C12_CooldownPredicate ==
    \A i \in Events :
        log[i].outcome \in {"allowed", "cooldown"} =>
            /\ log[i].chat \notin DOMAIN last_forward_times
                  => log[i].outcome = "allowed"
            /\ log[i].chat \in DOMAIN last_forward_times
                  => (log[i].outcome = "cooldown"
                        <=> log[i].t - last_forward_times[log[i].chat]
                               < 60 * log[i].cooldown)
            /\ log[i].cooldown = 0 => log[i].outcome = "allowed"

\* the predicate was asked exactly when the cooldown of one minute ended, and
\* answered true
C12_Witness ==
    \E i \in Events :
        /\ log[i].outcome = "allowed"
        /\ log[i].cooldown = 1
        /\ log[i].chat \in DOMAIN last_forward_times
        /\ log[i].t - last_forward_times[log[i].chat] = 60

----------------------------------------------------------------------------
(* C13 *)

\* keyword k, lower-cased, is found at offset off of the lower-cased text,
\* character by character
OccursAt(k, text, off) ==
    /\ off + Len(k) <= Len(text)
    /\ \A j \in 1..Len(k) : Lower(k[j]) = Lower(text[off + j])

\* C13: should_forward_message answers true exactly when the text is not
\* empty, there is a keyword, and some keyword, lower-cased, is a contiguous
\* part of the lower-cased text, wherever in the text that is
C13_KeywordFilter ==
    \A i \in Events :
        log[i].outcome \in {"match", "nomatch"} =>
            (log[i].outcome = "match"
               <=> /\ log[i].text # <<>>
                   /\ current_config.keywords # <<>>
                   /\ \E n \in 1..Len(current_config.keywords),
                         off \in 0..Len(log[i].text) :
                          OccursAt(current_config.keywords[n], log[i].text, off))

\* a keyword in mixed case was found inside a text in another case, not at its
\* start, by the second keyword of the sequence
C13_Witness ==
    \E i \in Events :
        /\ log[i].outcome = "match"
        /\ log[i].text = <<"x", "u", "R">>
        /\ current_config.keywords = <<<<"x", "x">>, <<"U", "r">>>>

----------------------------------------------------------------------------
(* C14 *)

\* event ev passes the cooldown check of line 273 in this step
PassedStep(ev) ==
    /\ GateStep(ev)
    /\ log'[ev].outcome \in {"nodest", "dispatching"}

\* the dispatch of event ev fails in this step
DispatchFailedStep(ev) ==
    /\ ev \in 1..Len(log)
    /\ log[ev].outcome = "dispatching"
    /\ log'[ev].outcome \in {"destfail", "sendfail"}

\* C14: with the writes of users.json succeeding, an event that passes the
\* cooldown check adds one to keywords_triggered in that step, before its
\* dispatch, whether or not a destination is set, and a dispatch that fails
\* changes no counter and leaves the cooldown map
C14_TriggerCountedBeforeDispatch ==
    [][\A ev \in 1..MaxEvents :
          /\ (PassedStep(ev) /\ faults' = faults) =>
                StatsOf(file') = Stats(StatsOf(file).messages_forwarded,
                                       StatsOf(file).keywords_triggered + 1)
          /\ DispatchFailedStep(ev) =>
                /\ StatsOf(file') = StatsOf(file)
                /\ last_forward_times' = last_forward_times]_vars

----------------------------------------------------------------------------
(* C15 *)

DiscardOutcomes == {"unmonitored", "empty", "nomatch", "cooldown"}

\* event ev is discarded at lines 261-275 in this step
DiscardStep(ev) ==
    /\ GateStep(ev)
    /\ log'[ev].outcome \in DiscardOutcomes

----------------------------------------------------------------------------
(* C16 *)

\* the entry of source c in the cooldown map is created or changed in this step
EntryWritten(c) ==
    /\ c \in DOMAIN last_forward_times'
    /\ c \in DOMAIN last_forward_times => last_forward_times'[c] # last_forward_times[c]

\* C16: a source has an entry in the cooldown map only if an event of it was
\* forwarded; no step removes an entry; the step that follows the successful
\* forward of an event writes the entry of its source, with the time of the
\* event, and no other step and no other entry is written
C16_CooldownMapWrittenByForwards ==
    [][/\ \A c \in DOMAIN last_forward_times' :
             \E i \in 1..Len(log') :
                 log'[i].outcome = "forwarded" /\ log'[i].chat = c
       /\ DOMAIN last_forward_times \subseteq DOMAIN last_forward_times'
       /\ \A ev \in Events :
             ForwardedStep(ev) =>
                last_forward_times' =
                    SetKey(last_forward_times, log[ev].chat, log[ev].t)
       /\ \A c \in ChatIds :
             EntryWritten(c) =>
                \E ev \in Events : ForwardedStep(ev) /\ log[ev].chat = c]_vars

\* an event of one source matched and its dispatch failed, an event of another
\* source was forwarded: only the second source has an entry
C16_Witness ==
    /\ Len(log) = 2
    /\ log[1].outcome \in {"destfail", "sendfail"}
    /\ log[2].outcome = "forwarded"
    /\ log[1].chat # log[2].chat
    /\ DOMAIN last_forward_times = {log[2].chat}
    /\ last_forward_times[log[2].chat] = log[2].t

----------------------------------------------------------------------------
(* C17 *)

\* how many times client.forward_messages was invoked for event ev
ForwardCalls(seq, ev) == Cardinality({k \in 1..Len(seq) : seq[k] = ev})

\* C17: client.forward_messages is invoked once for an event whose destination
\* resolved (it is being sent, was forwarded, or the transport refused it) and
\* never for any other event, one whose destination did not resolve included;
\* a dispatch that failed stays failed
C17_DispatchAtMostOnce ==
    [][/\ \A ev \in 1..Len(log') :
             ForwardCalls(fwdSeq', ev) =
                 IF \/ log'[ev].outcome \in {"forwarded", "sendfail"}
                    \/ \E h \in Handlers : pc'[h] = "sending" /\ loc'[h].ev = ev
                 THEN 1 ELSE 0
       /\ \A ev \in Events :
             log[ev].outcome \in {"destfail", "sendfail"} =>
                /\ log'[ev].outcome = log[ev].outcome
                /\ ForwardCalls(fwdSeq', ev) = ForwardCalls(fwdSeq, ev)]_vars

\* the transport refused the first event and a later event was forwarded:
\* client.forward_messages was invoked once for each
C17_Witness ==
    /\ Len(log) = 2
    /\ log[1].outcome = "sendfail"
    /\ log[2].outcome = "forwarded"
    /\ fwdSeq = <<1, 2>>
    /\ now > log[1].t

----------------------------------------------------------------------------
(* C18 *)

\* the refresh that event ev triggered ends in this step, by returning or by
\* raising
RefreshEndStep(ev) ==
    /\ ev \in 1..Len(log')
    /\ log'[ev].outcome # "refreshing"
    /\ IF ev \in 1..Len(log) THEN log[ev].outcome = "refreshing" ELSE LoadStep

\* C18: when the refresh that an event triggered ends, however it ends,
\* last_config_check is the time of that event
C18_RefreshTimeSetOnFailure ==
    [][\A ev \in 1..MaxEvents :
          RefreshEndStep(ev) => last_config_check' = log'[ev].t]_vars

----------------------------------------------------------------------------
(* C19 *)

\* C19: a refresh that loads an inactive configuration leaves the monitored set
\* empty, and the cached configuration goes from inactive to active only in a
\* step that loads an active configuration
C19_InactiveRefreshEmptiesSet ==
    [][/\ (LoadStep /\ ~ Active(current_config')) => monitored_entities' = {}
       /\ (~ Active(current_config) /\ Active(current_config')) => LoadStep]_vars

----------------------------------------------------------------------------
(* C20 *)

\* no setup_monitoring is suspended in entity resolution
NoRefreshInProgress == \A p \in Tasks : pc[p] # "resolving"

\* every channel and group entry of the configuration has a name
WellFormed(config) ==
    \A i \in 1..Len(Entries(config)) : "name" \in DOMAIN Entries(config)[i].data

\* C20: while no refresh is in progress and the cached configuration is active
\* (and well formed), the monitored set was resolved from the names of that
\* configuration: it holds ids of its names only, and lacks one only where the
\* platform failed
C20_SetMatchesCachedConfig ==
    (/\ NoRefreshInProgress
     /\ Active(current_config)
     /\ WellFormed(current_config)) =>
        /\ monitored_entities \subseteq KnownIds(current_config)
        /\ Cardinality(KnownIds(current_config) \ monitored_entities) <= faults

====
